---- MODULE Spec2Model ----
(***************************************************************************)
(* Capture pipeline of the sports-journalist agent: the MovieRecorder      *)
(* capture loop (movie_recorder.py), MovieRecorder.stop() with its signal  *)
(* escalation, and the two entry points that drive it: the request layer   *)
(* of api.py (start_recording / stop_recording / get_recording_status on   *)
(* one asyncio event loop) and the command line main() of                  *)
(* movie_recorder.py (one recorder, stopped by the signal handler).        *)
(***************************************************************************)
EXTENDS Integers, Sequences, FiniteSets, TLC

\* ------------------------------------------------------------------ bounds
MaxSessions == 2      \* start requests that pass the conflict check
MaxSegments == 3      \* encoder processes spawned in one run, all recorders together
NumHandlers == 2      \* stop requests that may be in progress at once
MaxWork == 5          \* start requests, stop requests and encoder spawns of one run, together

\* the same three limits for the longer runs of SpecLong
LongSessions == 3
LongSegments == 2
LongWork == 7

\* direct calls of _concatenate_segments (SpecRegen)
MaxList == 2          \* segments in the list
MaxCalls == 2         \* calls

\* ------------------------------------------------------- program constants
SizeThreshold == 1000 \* os.path.getsize(output_file) > 1000
NoFile == 0 - 1       \* size reported for a path that does not exist
NoRecorder == 0       \* recorder_state["recorder"] is None / current_process is None

Recorders == 1..LongSessions
Handlers == 1..NumHandlers
NoPath == <<>>

\* Sizes an encoder may leave behind: no file, a file at the threshold, one above it.
FileSizes == {NoFile, SizeThreshold, SizeThreshold + 1}
ReturnCodes == {0, 1}

VARIABLES
    entry,              \* "api" (uvicorn api:app) or "cli" (movie_recorder.main)
    recorder_state,     \* api.py global: recorder, is_recording, current_video, session_id
    budget,             \* how much of a run is explored: sessions, segments, work
    now,                    \* the wall clock, in changes of strftime("%Y%m%d_%H%M%S")
    nsessions,          \* start requests that passed the conflict check so far
    nstops,             \* calls of MovieRecorder.stop() so far
    hpc,                \* position of each stop handler (or of the signal handler)
    hrec,               \* the handler's local `recorder`
    hstart,             \* the clock when the handler's asyncio.sleep(4) began
    session_timestamp,  \* MovieRecorder.session_timestamp
    accumulate,         \* MovieRecorder.accumulate
    running,            \* MovieRecorder.running
    segment_count,      \* MovieRecorder.segment_count
    recorded_segments,  \* MovieRecorder.recorded_segments
    current_process,    \* MovieRecorder.current_process: index into procs[r], 0 = None
    procs,              \* encoder processes each recorder has spawned
    lpc,                \* position of the record_thread in _recording_loop
    output_file,        \* local of _recording_loop
    final,              \* the loop is in its `elif not self.running` branch
    acc_rounds,         \* calls of _concatenate_segments: snapshot, index and result
    processed,          \* arguments of the calls of _process_segment, in call order
    files,              \* the output directory, in order of modification time
    regen,              \* a call of _concatenate_segments taken step by step (SpecRegen)
    variant,            \* the module whose S3Uploader is running
    client,             \* AudioProcessor.client is not None
    upload_queue,       \* S3Uploader.upload_queue
    uploader_running,   \* S3Uploader.running
    wpc,                \* position of the upload_thread in _upload_worker
    file_path,          \* local of _upload_worker
    queued,             \* the calls of queue_upload so far: path, size then, whether put
    uploads,            \* the calls of _upload_file so far: path and how the call ended
    ppc,                \* position of the record_thread inside _process_segment
    audio_path,         \* local of _process_segment
    audio_log,          \* the calls of extract_audio and transcribe so far
    quality,            \* MovieRecorder.quality
    platform,           \* sys.platform
    cmds,               \* the commands _record_segment has built so far
    process,            \* ScreenRecorder.process and the segment its muxer has open
    watcher_running,    \* FileWatcher.running
    known_files,        \* FileWatcher.known_files
    wtpc,               \* position of the watch_thread in _watch_loop
    current_files,      \* local of _watch_loop
    new_files,          \* local of _watch_loop: what its for loop has not visited yet
    watch_file,         \* the loop variable file_path of _watch_loop
    size1,              \* local of _watch_loop
    remaining_files     \* local of FileWatcher.stop: what its for loop has not visited yet

vars == <<entry, budget, now, recorder_state, nsessions, nstops, hpc, hrec, hstart,
          session_timestamp, accumulate, running,
          segment_count, recorded_segments, current_process, procs, lpc, output_file,
          final, acc_rounds, processed, files, regen,
          variant, client, upload_queue, uploader_running, wpc, file_path, queued, uploads,
          ppc, audio_path, audio_log,
          quality, platform, cmds,
          process, watcher_running, known_files, wtpc, current_files, new_files,
          watch_file, size1, remaining_files>>

uploaderVars == <<variant, upload_queue, uploader_running, wpc, file_path, queued, uploads>>
audioVars == <<client, ppc, audio_path, audio_log>>
pipeVars == <<uploaderVars, audioVars>>
driverVars == <<quality, platform, cmds>>
watcherVars == <<process, watcher_running, known_files, wtpc, current_files, new_files,
                 watch_file, size1, remaining_files>>
sideVars == <<driverVars, watcherVars>>

apiVars == <<recorder_state, nsessions>>
handlerVars == <<hpc, hrec, hstart, nstops>>
loopVars == <<segment_count, recorded_segments, lpc, output_file, final,
              acc_rounds, processed>>

\* ------------------------------------------------------------------ helpers
IsPrefix(s, t) == /\ Len(s) <= Len(t)
                  /\ \A i \in 1..Len(s) : s[i] = t[i]

Count(s, x) == Cardinality({i \in 1..Len(s) : s[i] = x})

\* movie_{timestamp}_{segment_count:03d}.mp4; the recorder stands for the wall-clock part.
SegmentPath(r, idx) == <<"movie", r, idx>>

\* accumulated_{session_timestamp}_{segment_count:03d}.mp4
AccumulatedPath(ts, idx) == <<"accumulated", ts, idx>>

\* os.path.getsize, NoFile when os.path.exists is false
FileSize(fs, p) ==
    IF \E i \in 1..Len(fs) : fs[i].path = p
    THEN (CHOOSE e \in {fs[i] : i \in 1..Len(fs)} : e.path = p).size
    ELSE NoFile

\* what a read of the file returns: the segments it holds, in order
FileContent(fs, p) ==
    IF \E i \in 1..Len(fs) : fs[i].path = p
    THEN (CHOOSE e \in {fs[i] : i \in 1..Len(fs)} : e.path = p).content
    ELSE <<>>

\* A write creates the file or rewrites it; either way it becomes the most recent one.
WriteFile(fs, p, sz, c) ==
    Append(SelectSeq(fs, LAMBDA e : e.path # p), [path |-> p, size |-> sz, content |-> c])

\* ffmpeg -f concat -c copy: the streams of the listed files, one after the other
RECURSIVE MergedContentMutReversed(_, _)
MergedContentMutReversed(fs, list) ==
    IF list = <<>> THEN <<>>
    ELSE MergedContentMutReversed(fs, Tail(list)) \o FileContent(fs, Head(list))

RECURSIVE MergedContent(_, _)
MergedContent(fs, list) ==
    IF list = <<>> THEN <<>>
    ELSE FileContent(fs, Head(list)) \o MergedContent(fs, Tail(list))

RECURSIVE MergedSize(_, _)
MergedSize(fs, list) ==
    IF list = <<>> THEN 0
    ELSE FileSize(fs, Head(list)) + MergedSize(fs, Tail(list))

\* the test of lines 463 and 479
SizeOkMutGe(fs, p) == FileSize(fs, p) # NoFile /\ FileSize(fs, p) >= SizeThreshold
SizeOk(fs, p) == FileSize(fs, p) # NoFile /\ FileSize(fs, p) > SizeThreshold

\* self.recorded_segments.append(output_file)
AppendSegmentMutReplace(segs, p) == <<p>>
AppendSegment(segs, p) == Append(segs, p)

Alive(r, i) == procs[r][i].alive
AliveProcs(r) == {i \in 1..Len(procs[r]) : Alive(r, i)}

\* self.current_process and self.current_process.poll() is None
CurrentAlive(r) == current_process[r] # NoRecorder /\ Alive(r, current_process[r])

\* Popen.send_signal / terminate / kill: poll first, signal only a live process
Signal(ps, i, sig) ==
    IF ps[i].alive THEN [ps EXCEPT ![i].sigs = Append(@, sig)] ELSE ps

RECURSIVE SpawnedUpTo(_)
SpawnedUpTo(r) == IF r = 0 THEN 0 ELSE Len(procs[r]) + SpawnedUpTo(r - 1)
Spawned == SpawnedUpTo(LongSessions)

\* what the run has used of its budget
Work == nsessions + nstops + Spawned

\* record_thread.is_alive()
LoopAlive(r) == lpc[r] \in {"check", "spawn", "wait", "concat", "process"}

\* The thread is inside a call that can outlast a five second join: the encoder's
\* wait(), the copy or merge of _concatenate_segments, or _process_segment
\* (audio extraction with timeout=60, then the transcription request).
Blocked(r) == \/ lpc[r] \in {"concat", "process"}
              \/ lpc[r] = "wait" /\ CurrentAlive(r)

\* record_thread.join(timeout=5) returns: the thread has ended, or the timeout
\* expired while the thread was blocked
JoinReturns(r) == ~LoopAlive(r) \/ Blocked(r)

\* The event loop runs one handler at a time; a handler gives it up only in
\* `await asyncio.sleep(4)`. MovieRecorder.stop() is a blocking call.
OnLoop(h) == hpc[h] \notin {"idle", "sleep"}
LoopFree == \A h \in Handlers : ~OnLoop(h)

\* `await asyncio.sleep(4)` is over: four seconds later the clock reads another second
SleepElapsed(h) == now > hstart[h]

\* stop_recording, lines 219-234: the newest accumulated_*.mp4, else the newest *.mp4
LatestVideo(fs) ==
    LET acc == SelectSeq(fs, LAMBDA e : e.path[1] = "accumulated")
        mp4 == SelectSeq(fs, LAMBDA e : e.path[1] \in {"accumulated", "movie"})
    IN  IF Len(acc) > 0 THEN acc[Len(acc)].path
        ELSE IF Len(mp4) > 0 THEN mp4[Len(mp4)].path
        ELSE NoPath

\* line 382
CopyBranchMutNever(segs) == FALSE
CopyBranch(segs) == Len(segs) = 1

\* no call of _concatenate_segments is being followed step by step
NoCall == [pc |-> "idle", calls |-> <<>>, outcome |-> "none", seen |-> <<>>]

\* -------------------------------------------------------------------- Init
\* the state after construction, whatever the explored part of the run
InitCommon ==
    /\ now = 0
    /\ recorder_state = [recorder |-> NoRecorder, is_recording |-> FALSE,
                         current_video |-> NoPath, session_id |-> 0]
    /\ nstops = 0
    /\ hpc = [h \in Handlers |-> "idle"]
    /\ hrec = [h \in Handlers |-> NoRecorder]
    /\ hstart = [h \in Handlers |-> 0]
    /\ session_timestamp = [r \in Recorders |-> 0]
    /\ segment_count = [r \in Recorders |-> 0]
    /\ recorded_segments = [r \in Recorders |-> <<>>]
    /\ current_process = [r \in Recorders |-> NoRecorder]
    /\ procs = [r \in Recorders |-> <<>>]
    /\ output_file = [r \in Recorders |-> NoPath]
    /\ final = [r \in Recorders |-> FALSE]
    /\ acc_rounds = [r \in Recorders |-> <<>>]
    /\ processed = [r \in Recorders |-> <<>>]
    /\ regen = NoCall

\* the defaults of the command line: --quality medium, on macOS; the command of an
\* encoder is looked at in SpecQuality only
DriverDefault ==
    /\ quality = "medium"
    /\ platform = "darwin"
    /\ cmds = <<>>

\* no ScreenRecorder and no FileWatcher: they exist in screen_recorder_with_audio.py only
WatcherOff ==
    /\ process = [state |-> "none", segments |-> 0]
    /\ watcher_running = FALSE
    /\ known_files = {}
    /\ wtpc = "none"
    /\ current_files = {}
    /\ new_files = {}
    /\ watch_file = NoPath
    /\ size1 = 0
    /\ remaining_files = <<>>

SideOff ==
    /\ DriverDefault
    /\ WatcherOff

\* no uploader and no audio unit take part in the run
PipelineOff ==
    /\ variant = "movie_recorder"
    /\ client = FALSE
    /\ upload_queue = <<>>
    /\ uploader_running = FALSE
    /\ wpc = "none"
    /\ file_path = NoPath
    /\ queued = <<>>
    /\ uploads = <<>>
    /\ ppc = "none"
    /\ audio_path = NoPath
    /\ audio_log = <<>>

InitRun ==
    /\ InitCommon
    /\ SideOff
    /\ PipelineOff
    /\ entry \in {"api", "cli"}
    /\ files = <<>>
    /\ IF entry = "api"
       THEN \* no recorder exists before the first start request
            /\ nsessions = 0
            /\ accumulate = [r \in Recorders |-> TRUE]
            /\ running = [r \in Recorders |-> FALSE]
            /\ lpc = [r \in Recorders |-> "none"]
       ELSE \* main(): MovieRecorder(..., args.accumulate) then recorder.start()
            /\ nsessions = 1
            /\ \E acc \in BOOLEAN : accumulate = [r \in Recorders |-> IF r = 1 THEN acc ELSE TRUE]
            /\ running = [r \in Recorders |-> r = 1]
            /\ lpc = [r \in Recorders |-> IF r = 1 THEN "check" ELSE "none"]

Init ==
    /\ budget = [sessions |-> MaxSessions, segments |-> MaxSegments, work |-> MaxWork]
    /\ InitRun

\* ----------------------------------------------------------- request layer
\* GET /api/recording/status: a read of recorder_state, it changes nothing
get_recording_status ==
    [is_recording |-> recorder_state.is_recording,
     session_id |-> recorder_state.session_id,
     current_video |-> recorder_state.current_video]

\* POST /api/recording/start
StartRequest ==
    /\ entry = "api"
    /\ LoopFree
    /\ IF recorder_state.is_recording
       THEN \* HTTPException(400): nothing is touched
            UNCHANGED <<recorder_state, nsessions, session_timestamp, accumulate, running,
                        segment_count, lpc>>
       ELSE /\ nsessions < budget.sessions
            /\ Work < budget.work
            /\ nsessions' = nsessions + 1
            /\ \E constructed \in BOOLEAN :
                 LET r == nsessions + 1 IN
                 IF constructed
                 THEN /\ recorder_state' = [recorder_state EXCEPT
                                              !.session_id = r,
                                              !.recorder = r,
                                              !.is_recording = TRUE]
                      \* MovieRecorder.__init__, line 258
                      /\ session_timestamp' = [session_timestamp EXCEPT ![r] = now]
                      /\ accumulate' = [accumulate EXCEPT ![r] = TRUE]
                      \* recorder.start()
                      /\ running' = [running EXCEPT ![r] = TRUE]
                      /\ segment_count' = [segment_count EXCEPT ![r] = 0]
                      /\ lpc' = [lpc EXCEPT ![r] = "check"]
                 ELSE \* AudioProcessor() or MovieRecorder() raised
                      /\ recorder_state' = [recorder_state EXCEPT
                                              !.session_id = r,
                                              !.is_recording = FALSE]
                      /\ UNCHANGED <<session_timestamp, accumulate, running, segment_count, lpc>>
    /\ UNCHANGED pipeVars /\ UNCHANGED <<sideVars, entry, budget, regen, now, hstart, nstops, hpc, hrec, recorded_segments,
                   current_process, procs,
                   output_file, final, acc_rounds, processed, files>>

\* The clock reaches the next second. Only the seconds that a sleeping stop request
\* is still waiting for are followed: a clock that moves less often makes more
\* timestamps equal, never fewer.
Tick ==
    /\ \E h \in Handlers : hpc[h] = "sleep" /\ ~SleepElapsed(h)
    /\ now' = now + 1
    /\ UNCHANGED pipeVars /\ UNCHANGED <<sideVars, entry, budget, regen, session_timestamp, accumulate, running, current_process,
                   procs, files>>
    /\ UNCHANGED apiVars /\ UNCHANGED handlerVars /\ UNCHANGED loopVars

\* ------------------------------------------------------ MovieRecorder.stop
\* where the caller of MovieRecorder.stop() continues: api.py line 217, main line 608
Returned == IF entry = "api" THEN "sleep" ELSE "sig_sleep"

\* Lines 514-535 up to the first wait: clear the flag, poll the current process and,
\* if it is alive, send SIGINT; when send_signal raises (it does for SIGINT on
\* win32), the except branch kills the process and does not wait for it.
StopBegin(h, r) ==
    /\ Work < budget.work
    /\ nstops' = nstops + 1
    /\ hrec' = [hrec EXCEPT ![h] = r]
    /\ running' = [running EXCEPT ![r] = FALSE]
    /\ IF CurrentAlive(r)
       THEN \E raised \in BOOLEAN :
              IF raised
              THEN /\ procs' = [procs EXCEPT ![r] = Signal(@, current_process[r], "KILL")]
                   /\ hpc' = [hpc EXCEPT ![h] = "stop_join"]
              ELSE /\ procs' = [procs EXCEPT ![r] = Signal(@, current_process[r], "INT")]
                   /\ hpc' = [hpc EXCEPT ![h] = "stop_wait5"]
       ELSE /\ hpc' = [hpc EXCEPT ![h] = "stop_join"]
            /\ UNCHANGED procs

\* stop_recording, lines 209-210: HTTPException(400), nothing is touched
StopConflictMutClear ==
    /\ recorder_state' = [recorder_state EXCEPT !.current_video = NoPath]
    /\ UNCHANGED <<nstops, hpc, hrec, running, procs>>
StopConflict == UNCHANGED <<recorder_state, nstops, hpc, hrec, running, procs>>

\* the status code stop_recording answers with
StopReply ==
    IF ~recorder_state.is_recording THEN 400
    ELSE IF recorder_state.recorder = NoRecorder THEN 500
    ELSE 200

\* the status code start_recording answers with
StartReply ==
    IF recorder_state.is_recording THEN 400
    ELSE IF recorder_state'.is_recording THEN 200
    ELSE 500

\* A stop request takes the first free handler.
FirstIdle(h) == hpc[h] = "idle" /\ \A g \in Handlers : g < h => hpc[g] # "idle"

\* POST /api/recording/stop up to the first wait inside MovieRecorder.stop()
StopRequest(h) ==
    /\ entry = "api"
    /\ LoopFree
    /\ FirstIdle(h)
    /\ IF ~recorder_state.is_recording
       THEN StopConflict
       ELSE IF recorder_state.recorder = NoRecorder
       THEN \* None.stop() raises; the except branch clears the flag
            /\ recorder_state' = [recorder_state EXCEPT !.is_recording = FALSE]
            /\ UNCHANGED <<nstops, hpc, hrec, running, procs>>
       ELSE /\ StopBegin(h, recorder_state.recorder)
            /\ UNCHANGED recorder_state
    /\ UNCHANGED pipeVars /\ UNCHANGED <<sideVars, entry, budget, regen, now, session_timestamp, hstart, nsessions, accumulate,
                   current_process, files>>
    /\ UNCHANGED loopVars

\* stop_recording after `await asyncio.sleep(4)`
StopFinish(h) ==
    /\ entry = "api"
    /\ LoopFree
    /\ hpc[h] = "sleep"
    /\ SleepElapsed(h)
    /\ recorder_state' = [recorder_state EXCEPT
                            !.current_video = LatestVideo(files),
                            !.is_recording = FALSE,
                            !.recorder = NoRecorder]
    /\ hpc' = [hpc EXCEPT ![h] = "idle"]
    /\ hrec' = [hrec EXCEPT ![h] = NoRecorder]
    /\ UNCHANGED pipeVars /\ UNCHANGED <<sideVars, entry, budget, regen, now, session_timestamp, hstart, nsessions, nstops,
                   accumulate, running, current_process, procs,
                   files>>
    /\ UNCHANGED loopVars

\* ------------------------------------------------------ command-line entry
\* main.signal_handler: recorder.stop() up to its first wait
SignalHandler ==
    /\ entry = "cli"
    /\ hpc[1] = "idle"
    /\ StopBegin(1, 1)
    /\ UNCHANGED pipeVars /\ UNCHANGED <<sideVars, entry, budget, regen, now, session_timestamp, hstart, accumulate,
                   current_process, files>>
    /\ UNCHANGED apiVars
    /\ UNCHANGED loopVars

\* time.sleep(3); uploader.stop(); sys.exit(0): the daemon record_thread dies with the process
SignalExit ==
    /\ entry = "cli"
    /\ hpc[1] = "sig_sleep"
    /\ hpc' = [hpc EXCEPT ![1] = "exited"]
    /\ lpc' = [r \in Recorders |-> IF LoopAlive(r) THEN "aborted" ELSE lpc[r]]
    /\ UNCHANGED pipeVars /\ UNCHANGED <<sideVars, entry, budget, regen, now, session_timestamp, hstart, nstops, hrec, accumulate,
                   running, current_process, procs, files,
                   segment_count, recorded_segments, output_file, final,
                   acc_rounds, processed>>
    /\ UNCHANGED apiVars

\* ------------------------------------------- MovieRecorder.stop, the waits
stopFrame == <<pipeVars, sideVars, entry, budget, regen, now, session_timestamp, accumulate, running, files, hrec,
              nstops, current_process>>

\* line 520: wait(timeout=5); on TimeoutExpired line 524, terminate()
StopWait5(h) ==
    /\ hpc[h] = "stop_wait5"
    /\ LET r == hrec[h] IN
       IF CurrentAlive(r)
       THEN /\ procs' = [procs EXCEPT ![r] = Signal(@, current_process[r], "TERM")]
            /\ hpc' = [hpc EXCEPT ![h] = "stop_wait3"]
       ELSE /\ hpc' = [hpc EXCEPT ![h] = "stop_join"]
            /\ UNCHANGED procs
    /\ UNCHANGED hstart
    /\ UNCHANGED stopFrame /\ UNCHANGED apiVars /\ UNCHANGED loopVars

\* line 526: wait(timeout=3); on TimeoutExpired line 528, kill()
StopWait3(h) ==
    /\ hpc[h] = "stop_wait3"
    /\ LET r == hrec[h] IN
       IF CurrentAlive(r)
       THEN /\ procs' = [procs EXCEPT ![r] = Signal(@, current_process[r], "KILL")]
            /\ hpc' = [hpc EXCEPT ![h] = "stop_waitk"]
       ELSE /\ hpc' = [hpc EXCEPT ![h] = "stop_join"]
            /\ UNCHANGED procs
    /\ UNCHANGED hstart
    /\ UNCHANGED stopFrame /\ UNCHANGED apiVars /\ UNCHANGED loopVars

\* line 529: wait() without a timeout
StopWaitKilled(h) ==
    /\ hpc[h] = "stop_waitk"
    /\ ~CurrentAlive(hrec[h])
    /\ hpc' = [hpc EXCEPT ![h] = "stop_join"]
    /\ UNCHANGED procs
    /\ UNCHANGED hstart
    /\ UNCHANGED stopFrame /\ UNCHANGED apiVars /\ UNCHANGED loopVars

\* lines 537-540: join(timeout=5), then stop() returns to its caller
StopJoin(h) ==
    /\ hpc[h] = "stop_join"
    /\ JoinReturns(hrec[h])
    /\ hpc' = [hpc EXCEPT ![h] = Returned]
    /\ hstart' = [hstart EXCEPT ![h] = now]
    /\ UNCHANGED procs
    /\ UNCHANGED stopFrame /\ UNCHANGED apiVars /\ UNCHANGED loopVars

\* ------------------------------------------------ MovieRecorder._recording_loop
loopFrame == <<pipeVars, sideVars, entry, budget, regen, now, session_timestamp, hstart, accumulate, running, hpc,
              hrec, nstops>>

\* line 458 `while self.running` and line 459
LoopCheck(r) ==
    /\ lpc[r] = "check"
    /\ IF running[r]
       THEN /\ Spawned < budget.segments
            /\ Work < budget.work
            /\ output_file' = [output_file EXCEPT ![r] = SegmentPath(r, segment_count[r])]
            /\ lpc' = [lpc EXCEPT ![r] = "spawn"]
       ELSE /\ lpc' = [lpc EXCEPT ![r] = "done"]
            /\ UNCHANGED output_file
    /\ UNCHANGED <<segment_count, recorded_segments, final, acc_rounds, processed,
                   current_process, procs, files>>
    /\ UNCHANGED loopFrame /\ UNCHANGED apiVars

\* _record_segment up to subprocess.Popen; a spawn error ends the thread
LoopSpawn(r) ==
    /\ lpc[r] = "spawn"
    /\ \E spawned \in BOOLEAN :
         IF spawned
         THEN /\ procs' = [procs EXCEPT ![r] = Append(@,
                    [alive |-> TRUE, returncode |-> NoFile, sigs |-> <<>>,
                     out |-> output_file[r]])]
              /\ current_process' = [current_process EXCEPT ![r] = Len(procs[r]) + 1]
              /\ lpc' = [lpc EXCEPT ![r] = "wait"]
         ELSE /\ lpc' = [lpc EXCEPT ![r] = "crashed"]
              /\ UNCHANGED <<procs, current_process>>
    /\ UNCHANGED <<segment_count, recorded_segments, output_file, final,
                   acc_rounds, processed, files>>
    /\ UNCHANGED loopFrame /\ UNCHANGED apiVars

\* self.current_process.wait() has returned
WaitReturnsMutNoWait(r) == TRUE
WaitReturns(r) == ~Alive(r, current_process[r])

FanOutMutRaw(r, isFinal) ==
    /\ final' = [final EXCEPT ![r] = isFinal]
    /\ processed' = [processed EXCEPT ![r] = Append(@, output_file[r])]
    /\ IF accumulate[r]
       THEN /\ recorded_segments' = [recorded_segments EXCEPT
                                       ![r] = AppendSegment(@, output_file[r])]
            /\ lpc' = [lpc EXCEPT ![r] = "concat"]
       ELSE /\ lpc' = [lpc EXCEPT ![r] = "process"]
            /\ UNCHANGED recorded_segments

\* what both accepting branches do with output_file (lines 466-475 and 482-488)
FanOut(r, isFinal) ==
    /\ final' = [final EXCEPT ![r] = isFinal]
    /\ IF accumulate[r]
       THEN /\ recorded_segments' = [recorded_segments EXCEPT
                                       ![r] = AppendSegment(@, output_file[r])]
            /\ lpc' = [lpc EXCEPT ![r] = "concat"]
            /\ UNCHANGED processed
       ELSE /\ processed' = [processed EXCEPT ![r] = Append(@, output_file[r])]
            /\ lpc' = [lpc EXCEPT ![r] = "process"]
            /\ UNCHANGED recorded_segments

\* line 479: the final segment is kept on its size alone, whatever the exit code
AcceptFinalMutNeedsSuccess(r) ==
    /\ procs[r][current_process[r]].returncode = 0
    /\ SizeOk(files, output_file[r])
AcceptFinal(r) == SizeOk(files, output_file[r])

\* lines 490-492: the segment is left out and the loop goes on
DiscardMutFansOut(r) ==
    /\ segment_count' = [segment_count EXCEPT ![r] = @ + 1]
    /\ lpc' = [lpc EXCEPT ![r] = "process"]
    /\ processed' = [processed EXCEPT ![r] = Append(@, output_file[r])]
    /\ UNCHANGED <<recorded_segments, final>>
DiscardMutSameIndex(r) ==
    /\ lpc' = [lpc EXCEPT ![r] = "check"]
    /\ UNCHANGED <<segment_count, recorded_segments, processed, final>>
Discard(r) ==
    /\ segment_count' = [segment_count EXCEPT ![r] = @ + 1]
    /\ lpc' = [lpc EXCEPT ![r] = "check"]
    /\ UNCHANGED <<recorded_segments, processed, final>>

\* lines 359-360 and 463-492: wait() returns, then the three-way branch on the segment
LoopWait(r) ==
    /\ lpc[r] = "wait"
    /\ WaitReturns(r)
    /\ LET success == procs[r][current_process[r]].returncode = 0 IN
       IF success /\ SizeOk(files, output_file[r])
       THEN FanOut(r, FALSE) /\ UNCHANGED segment_count
       ELSE IF ~running[r]
       THEN IF AcceptFinal(r)
            THEN FanOut(r, TRUE) /\ UNCHANGED segment_count
            ELSE /\ lpc' = [lpc EXCEPT ![r] = "done"]
                 /\ UNCHANGED <<segment_count, recorded_segments, processed, final>>
       ELSE Discard(r)
    /\ UNCHANGED <<output_file, acc_rounds, current_process, procs, files>>
    /\ UNCHANGED loopFrame /\ UNCHANGED apiVars

\* line 477 after a pass of the first branch, line 489 after the final pass
AfterPass(r) ==
    IF final[r]
    THEN /\ lpc' = [lpc EXCEPT ![r] = "done"]
         /\ UNCHANGED segment_count
    ELSE /\ lpc' = [lpc EXCEPT ![r] = "check"]
         /\ segment_count' = [segment_count EXCEPT ![r] = @ + 1]

\* lines 384 and 393-395: what a round reads of self.recorded_segments
SnapshotMutNewest(r) == <<recorded_segments[r][Len(recorded_segments[r])]>>
Snapshot(r) == recorded_segments[r]

\* _concatenate_segments returns or raises
LoopConcat(r) ==
    /\ lpc[r] = "concat"
    /\ LET segs == Snapshot(r)
           path == AccumulatedPath(session_timestamp[r], segment_count[r])
       IN
       \E outcome \in {"ok", "none", "raise"} :
         /\ outcome = "none" => ~CopyBranch(segs)   \* shutil.copy2 has no failure return
         /\ acc_rounds' = [acc_rounds EXCEPT ![r] = Append(@,
                             [segments |-> segs, index |-> segment_count[r],
                              result |-> IF outcome = "ok" THEN path ELSE NoPath])]
         /\ CASE outcome = "ok" ->
                   /\ files' = IF CopyBranch(segs)
                               THEN \* shutil.copy2(src, accumulated_path)
                                    WriteFile(files, path, FileSize(files, segs[1]),
                                              FileContent(files, segs[1]))
                               ELSE WriteFile(files, path, MergedSize(files, segs),
                                              MergedContent(files, segs))
                   /\ processed' = [processed EXCEPT ![r] = Append(@, path)]
                   /\ lpc' = [lpc EXCEPT ![r] = "process"]
                   /\ UNCHANGED segment_count
              [] outcome = "none" ->
                   /\ AfterPass(r)
                   /\ UNCHANGED <<files, processed>>
              [] outcome = "raise" ->
                   /\ lpc' = [lpc EXCEPT ![r] = "crashed"]
                   /\ UNCHANGED <<files, processed, segment_count>>
    /\ UNCHANGED <<recorded_segments, output_file, final, current_process, procs>>
    /\ UNCHANGED loopFrame /\ UNCHANGED apiVars

\* _process_segment returns
LoopProcess(r) ==
    /\ lpc[r] = "process"
    /\ AfterPass(r)
    /\ UNCHANGED <<recorded_segments, output_file, final, acc_rounds, processed,
                   current_process, procs, files>>
    /\ UNCHANGED loopFrame /\ UNCHANGED apiVars

\* ------------------------------------------------------------ the encoder
\* An ffmpeg process exits: its time limit elapsed, it failed, or a signal ended it.
EncoderExit(r) ==
    \E i \in AliveProcs(r), rc \in ReturnCodes, sz \in FileSizes :
      /\ procs' = [procs EXCEPT ![r][i].alive = FALSE, ![r][i].returncode = rc]
      /\ files' = IF sz = NoFile THEN files
                  ELSE WriteFile(files, procs[r][i].out, sz, <<procs[r][i].out>>)
      /\ UNCHANGED pipeVars /\ UNCHANGED <<sideVars, entry, budget, regen, now, session_timestamp, accumulate, running,
                     current_process>>
      /\ UNCHANGED apiVars /\ UNCHANGED handlerVars /\ UNCHANGED loopVars

\* -------------------------------------------------------------------- Next
Next ==
    \/ StartRequest
    \/ Tick
    \/ SignalHandler
    \/ SignalExit
    \/ \E h \in Handlers : StopRequest(h)
    \/ \E h \in Handlers : StopFinish(h)
    \/ \E h \in Handlers : StopWait5(h)
    \/ \E h \in Handlers : StopWait3(h)
    \/ \E h \in Handlers : StopWaitKilled(h)
    \/ \E h \in Handlers : StopJoin(h)
    \/ \E r \in Recorders : LoopCheck(r)
    \/ \E r \in Recorders : LoopSpawn(r)
    \/ \E r \in Recorders : LoopWait(r)
    \/ \E r \in Recorders : LoopConcat(r)
    \/ \E r \in Recorders : LoopProcess(r)
    \/ \E r \in Recorders : EncoderExit(r)

Spec == Init /\ [][Next]_vars

\* ------------------------------------------------- longer runs, calm environment
\* SpecLong follows the request layer through more sessions than Spec does, in an
\* environment without faults: every recorder is constructed, every encoder is
\* spawned, answers SIGINT or runs to its time limit, exits with 0 and leaves a
\* file above the threshold, and every copy and merge succeeds.
Calm ==
    /\ \A r \in Recorders :
          /\ lpc[r] # "crashed"
          /\ r <= nsessions => lpc[r] # "none"
          /\ \A k \in 1..Len(acc_rounds[r]) : acc_rounds[r][k].result # NoPath
          /\ \A i \in 1..Len(procs[r]) :
                /\ IsPrefix(procs[r][i].sigs, <<"INT", "TERM", "KILL">>)
                /\ ~procs[r][i].alive =>
                      /\ procs[r][i].returncode = 0
                      /\ FileSize(files, procs[r][i].out) > SizeThreshold

InitLong ==
    /\ budget = [sessions |-> LongSessions, segments |-> LongSegments, work |-> LongWork]
    /\ InitRun
    /\ entry = "api"

NextLong ==
    \/ StartRequest /\ Calm'
    \/ Tick
    \/ \E h \in Handlers : StopRequest(h) /\ Calm'
    \/ \E h \in Handlers : StopFinish(h)
    \/ \E h \in Handlers : StopWait5(h)
    \/ \E h \in Handlers : StopWait3(h)
    \/ \E h \in Handlers : StopWaitKilled(h)
    \/ \E h \in Handlers : StopJoin(h)
    \/ \E r \in Recorders : LoopCheck(r)
    \/ \E r \in Recorders : LoopSpawn(r) /\ Calm'
    \/ \E r \in Recorders : LoopWait(r)
    \/ \E r \in Recorders : LoopConcat(r) /\ Calm'
    \/ \E r \in Recorders : LoopProcess(r)
    \/ \E r \in Recorders : EncoderExit(r) /\ Calm'

SpecLong == InitLong /\ [][NextLong]_vars

\* ------------------------------------- _concatenate_segments, step by step
\* SpecRegen calls _concatenate_segments of one recorder directly, as often as
\* MaxCalls, on the list as it grows and with segment_count as the loop advances it,
\* and follows each call through its steps.
Subject == 1

\* line 391: _concat_list_{segment_count}.txt
ManifestPath(idx) == <<"_concat_list", idx>>

\* os.path.exists(concat_list_path)
HasManifest(fs, idx) == FileSize(fs, ManifestPath(idx)) # NoFile

\* os.remove, lines 420 and 431-432
RemoveFileMutKeeps(fs, p) == fs
RemoveFile(fs, p) == SelectSeq(fs, LAMBDA e : e.path # p)

\* how subprocess.run of the merge tool can end: exit code 0 with the output written,
\* exit code 0 without output, nonzero exit code, TimeoutExpired, OSError
MergeOutcomes == {"zero", "zero_nofile", "nonzero", "timeout", "oserror"}

\* what a call has done so far, before any of its steps
CallRecord ==
    [segments |-> Snapshot(Subject), index |-> segment_count[Subject],
     result |-> NoPath, raised |-> FALSE, merged |-> FALSE, manifest |-> <<>>,
     written |-> FALSE, size |-> 0, content |-> <<>>, leftover |-> FALSE]

\* the call returns or raises: its record joins the history
Ends(rec) ==
    regen' = [NoCall EXCEPT
                !.calls = Append(regen.calls,
                         [rec EXCEPT !.leftover = HasManifest(files', rec.index)])]

InitRegen ==
    /\ InitCommon
    /\ SideOff
    /\ PipelineOff
    /\ entry = "cli"
    /\ budget = [sessions |-> MaxSessions, segments |-> MaxSegments, work |-> MaxWork]
    /\ nsessions = 1
    /\ accumulate = [r \in Recorders |-> TRUE]
    /\ running = [r \in Recorders |-> FALSE]
    /\ lpc = [r \in Recorders |-> "none"]
    \* the segments the encoder has left in the directory
    /\ \E sz \in [1..MaxList -> {SizeThreshold + 1, SizeThreshold + 2}] :
          files = [i \in 1..MaxList |->
                     [path |-> SegmentPath(Subject, i - 1), size |-> sz[i],
                      content |-> <<SegmentPath(Subject, i - 1)>>]]

regenFrame == <<pipeVars, sideVars, entry, budget, now, recorder_state, nsessions, nstops, hpc, hrec, hstart,
                session_timestamp, accumulate, running, current_process, procs, lpc,
                output_file, final, acc_rounds, processed>>

\* line 468: the loop appends the next segment
RegenAccept ==
    /\ regen.pc = "idle"
    /\ Len(recorded_segments[Subject]) < MaxList
    /\ recorded_segments' = [recorded_segments EXCEPT
          ![Subject] = AppendSegment(@, SegmentPath(Subject, Len(@)))]
    /\ UNCHANGED <<segment_count, files, regen>>
    /\ UNCHANGED regenFrame

\* lines 477 and 492: self.segment_count += 1
RegenNextIndex ==
    /\ regen.pc = "idle"
    /\ segment_count[Subject] < MaxList
    /\ segment_count' = [segment_count EXCEPT ![Subject] = @ + 1]
    /\ UNCHANGED <<recorded_segments, files, regen>>
    /\ UNCHANGED regenFrame

\* lines 379-397: the empty list, the copy of a single segment, or the manifest
RegenCall ==
    /\ regen.pc = "idle"
    /\ Len(regen.calls) < MaxCalls
    /\ LET segs == Snapshot(Subject)
           idx == segment_count[Subject]
           path == AccumulatedPath(session_timestamp[Subject], idx)
       IN
       IF segs = <<>>
       THEN /\ files' = files
            /\ Ends(CallRecord)
       ELSE IF CopyBranch(segs)
       THEN \E copied \in BOOLEAN :
              IF copied
              THEN /\ files' = WriteFile(files, path, FileSize(files, segs[1]),
                                         FileContent(files, segs[1]))
                   /\ Ends([CallRecord EXCEPT !.result = path, !.written = TRUE,
                                              !.size = FileSize(files, segs[1]),
                                              !.content = FileContent(files, segs[1])])
              ELSE \* shutil.copy2 raises
                   /\ files' = files
                   /\ Ends([CallRecord EXCEPT !.raised = TRUE])
       ELSE \E manifest \in {"written", "open_error", "write_error"} :
              CASE manifest = "written" ->
                     /\ files' = WriteFile(files, ManifestPath(idx), Len(segs), segs)
                     /\ regen' = [regen EXCEPT !.pc = "merge"]
                [] manifest = "open_error" ->
                     /\ files' = files
                     /\ Ends([CallRecord EXCEPT !.raised = TRUE])
                [] manifest = "write_error" ->
                     \* open() has created the file, f.write raises
                     /\ files' = WriteFile(files, ManifestPath(idx), 0, <<>>)
                     /\ Ends([CallRecord EXCEPT !.raised = TRUE])
    /\ UNCHANGED <<recorded_segments, segment_count>>
    /\ UNCHANGED regenFrame

\* lines 410-417: subprocess.run of the merge tool, which reads the manifest
RegenMerge ==
    /\ regen.pc = "merge"
    /\ LET idx == segment_count[Subject]
           path == AccumulatedPath(session_timestamp[Subject], idx)
           list == FileContent(files, ManifestPath(idx))
       IN
       \E outcome \in MergeOutcomes :
         /\ regen' = [regen EXCEPT
                        !.pc = IF outcome \in {"timeout", "oserror"} THEN "except" ELSE "remove",
                        !.outcome = outcome,
                        !.seen = list]
         /\ files' = IF outcome = "zero"
                     THEN WriteFile(files, path, MergedSize(files, list),
                                    MergedContent(files, list))
                     ELSE files
    /\ UNCHANGED <<recorded_segments, segment_count>>
    /\ UNCHANGED regenFrame

\* lines 419-428, or the except branch of lines 429-433
RegenReturn ==
    /\ regen.pc \in {"remove", "except"}
    /\ LET idx == segment_count[Subject]
           path == AccumulatedPath(session_timestamp[Subject], idx)
           good == /\ regen.pc = "remove"
                   /\ regen.outcome \in {"zero", "zero_nofile"}
                   /\ FileSize(files, path) # NoFile
           wrote == regen.outcome = "zero"
       IN
       /\ files' = RemoveFile(files, ManifestPath(idx))
       /\ Ends([CallRecord EXCEPT
                   !.merged = TRUE,
                   !.manifest = regen.seen,
                   !.result = IF good THEN path ELSE NoPath,
                   !.written = wrote,
                   !.size = IF wrote THEN FileSize(files, path) ELSE 0,
                   !.content = IF wrote THEN FileContent(files, path) ELSE <<>>])
    /\ UNCHANGED <<recorded_segments, segment_count>>
    /\ UNCHANGED regenFrame

NextRegen ==
    \/ RegenAccept
    \/ RegenNextIndex
    \/ RegenCall
    \/ RegenMerge
    \/ RegenReturn

SpecRegen == InitRegen /\ [][NextRegen]_vars

\* ------------------------------------------------------------- S3Uploader
\* The upload queue of movie_recorder.py and the one of screen_recorder_with_audio.py:
\* the same worker and the same stop(), another queue_upload and another _upload_file.
Variants == {"movie_recorder", "screen_recorder_with_audio"}

\* movie_recorder.py line 111: os.path.exists(file_path) and os.path.getsize(file_path) > 0;
\* screen_recorder_with_audio.py line 77 puts whatever it is given
AcceptsMutAny(fs, p) == TRUE
Accepts(fs, p) == variant = "screen_recorder_with_audio" \/ FileSize(fs, p) > 0

\* queue_upload(file_path), called by whoever finalized the artifact
QueueUploadOn(fs, p) ==
    /\ upload_queue' = IF Accepts(fs, p) THEN Append(upload_queue, p) ELSE upload_queue
    /\ queued' = Append(queued, [path |-> p, size |-> FileSize(fs, p),
                                  put |-> Accepts(fs, p)])

QueueUpload(p) == QueueUploadOn(files, p)

\* how a call of _upload_file can end: the file is not there (movie_recorder.py
\* lines 79-81), the upload went through, ClientError, any other exception
UploadOutcomes(fs, p) ==
    IF FileSize(fs, p) = NoFile
    THEN IF variant = "movie_recorder" THEN {"skipped"} ELSE {"error"}
    ELSE {"ok", "client_error", "error"}

Failed(outcome) == outcome \in {"client_error", "error"}

\* what the histories keep of an outcome: the callers see a result or none, whatever
\* the exception was
Logged(outcome) ==
    IF outcome \in {"ok", "skipped", "disabled"} THEN outcome ELSE "failed"

\* the queue after an upload has ended: both except branches only print
\* (movie_recorder.py lines 104-107)
RetainedMutRetry(q, p, outcome) == IF Failed(outcome) THEN Append(q, p) ELSE q
Retained(q, p, outcome) == q

\* the directory after an upload has ended: screen_recorder_with_audio.py line 67
\* removes the file it has uploaded, movie_recorder.py touches nothing
AfterUploadMutDropsFailed(fs, p, outcome) ==
    IF Failed(outcome) THEN SelectSeq(fs, LAMBDA e : e.path # p) ELSE fs
AfterUpload(fs, p, outcome) ==
    IF variant = "screen_recorder_with_audio" /\ outcome = "ok"
    THEN SelectSeq(fs, LAMBDA e : e.path # p)
    ELSE fs

\* what neither the uploader nor its worker touches
uploadFrame == <<sideVars, entry, budget, now, recorder_state, nsessions, nstops, hrec, hstart,
                 session_timestamp, accumulate, running, segment_count, recorded_segments,
                 current_process, procs, lpc, output_file, final, acc_rounds, processed,
                 regen, audioVars>>

workerFrame == <<uploadFrame, hpc>>

\* upload_thread.is_alive()
WorkerAlive == wpc \in {"get", "upload"}

WorkerGetMutLifo ==
    /\ wpc = "get"
    /\ IF upload_queue # <<>>
       THEN /\ file_path' = upload_queue[Len(upload_queue)]
            /\ upload_queue' = SubSeq(upload_queue, 1, Len(upload_queue) - 1)
            /\ wpc' = "upload"
       ELSE /\ ~uploader_running
            /\ wpc' = "exited"
            /\ UNCHANGED <<file_path, upload_queue>>
    /\ UNCHANGED <<variant, uploader_running, queued, uploads, files>>
    /\ UNCHANGED workerFrame

\* _upload_worker, the loop test and upload_queue.get(timeout=1): the next job, or
\* the end of the loop once running is false and the queue is empty. With running
\* true and an empty queue get() times out and the loop comes back here.
WorkerGet ==
    /\ wpc = "get"
    /\ IF upload_queue # <<>>
       THEN /\ file_path' = Head(upload_queue)
            /\ upload_queue' = Tail(upload_queue)
            /\ wpc' = "upload"
       ELSE /\ ~uploader_running
            /\ wpc' = "exited"
            /\ UNCHANGED <<file_path, upload_queue>>
    /\ UNCHANGED <<variant, uploader_running, queued, uploads, files>>
    /\ UNCHANGED workerFrame

\* _upload_file(file_path) returns, then task_done()
WorkerUpload ==
    /\ wpc = "upload"
    /\ \E outcome \in UploadOutcomes(files, file_path) :
         /\ uploads' = Append(uploads, [path |-> file_path, outcome |-> Logged(outcome)])
         /\ upload_queue' = Retained(upload_queue, file_path, outcome)
         /\ files' = AfterUpload(files, file_path, outcome)
    /\ wpc' = "get"
    /\ file_path' = NoPath
    /\ UNCHANGED <<variant, uploader_running, queued>>
    /\ UNCHANGED workerFrame

\* S3Uploader.stop(), line 118
UploaderStop == uploader_running' = FALSE

\* upload_thread.join(timeout=...) returns: the worker has ended, or the timeout
\* expired during an upload
UploadJoinReturns == wpc \in {"exited", "upload"}

\* ------------------------------------------------ the upload queue on its own
\* SpecUpload drives one S3Uploader of either module directly: artifacts are
\* enqueued in any order while files appear, are emptied or are cleaned up around
\* it, and stop() is called at any moment.
MaxJobs == 2          \* calls of queue_upload
Artifacts == {<<"movie", 1, 0>>, <<"movie", 1, 1>>}
ArtifactSizes == {NoFile, 0, SizeThreshold + 1}

\* S3Uploader.__init__: an empty queue, running = True, the worker started
UploaderStarted ==
    /\ upload_queue = <<>>
    /\ uploader_running = TRUE
    /\ wpc = "get"
    /\ file_path = NoPath
    /\ queued = <<>>
    /\ uploads = <<>>

AudioOff ==
    /\ client = FALSE
    /\ ppc = "none"
    /\ audio_path = NoPath
    /\ audio_log = <<>>

InitUpload ==
    /\ InitCommon
    /\ SideOff
    /\ entry = "cli"
    /\ budget = [sessions |-> MaxSessions, segments |-> MaxSegments, work |-> MaxWork]
    /\ nsessions = 0
    /\ accumulate = [r \in Recorders |-> FALSE]
    /\ running = [r \in Recorders |-> FALSE]
    /\ lpc = [r \in Recorders |-> "none"]
    /\ variant \in Variants
    /\ UploaderStarted
    /\ AudioOff
    /\ files = <<>>

\* a component that finalized an artifact (or believes so) enqueues it
Enqueue(p) ==
    /\ Len(queued) < MaxJobs
    /\ QueueUpload(p)
    /\ UNCHANGED <<variant, uploader_running, wpc, file_path, uploads, files, hpc>>
    /\ UNCHANGED uploadFrame

\* the directory changes under the queue: an artifact is written, truncated or removed
Disturb(p) ==
    /\ \E sz \in ArtifactSizes :
         /\ sz # FileSize(files, p)
         /\ files' = IF sz = NoFile THEN SelectSeq(files, LAMBDA e : e.path # p)
                     ELSE WriteFile(files, p, sz, <<p>>)
    /\ UNCHANGED uploaderVars
    /\ UNCHANGED hpc
    /\ UNCHANGED uploadFrame

\* the owner calls stop(): running = False, then the join
UploadStop ==
    /\ hpc[1] = "idle"
    /\ UploaderStop
    /\ hpc' = [hpc EXCEPT ![1] = "uploader_join"]
    /\ UNCHANGED <<variant, upload_queue, wpc, file_path, queued, uploads, files>>
    /\ UNCHANGED uploadFrame

UploadJoin ==
    /\ hpc[1] = "uploader_join"
    /\ UploadJoinReturns
    /\ hpc' = [hpc EXCEPT ![1] = "stopped"]
    /\ UNCHANGED uploaderVars
    /\ UNCHANGED files
    /\ UNCHANGED uploadFrame

NextUpload ==
    \/ \E p \in Artifacts : Enqueue(p)
    \/ \E p \in Artifacts : Disturb(p)
    \/ UploadStop
    \/ UploadJoin
    \/ WorkerGet
    \/ WorkerUpload

SpecUpload == InitUpload /\ [][NextUpload]_vars

\* --------------------------------------------- AudioProcessor, _process_segment
\* video_path.replace('.mp4', '.mp3') and audio_path.replace('.mp3', '_transcript.txt')
AudioPath(v) == <<"mp3", v[1], v[2], v[3]>>
TranscriptPath(a) == <<"transcript", a[2], a[3], a[4]>>

\* how extract_audio can end: exit code 0 with the file written, exit code 0 without
\* it, nonzero exit code, TimeoutExpired, any other exception (lines 162-182)
ExtractOutcomes == {"ok", "zero_nofile", "nonzero", "timeout", "error"}

\* how transcribe can end. Without a client it returns at once (lines 186-188).
\* With one: the transcript is saved; the audio cannot be read; the request fails
\* (authentication, quota, timeout); the response carries no text, so that the
\* write of line 225 raises after the header was written; the file cannot be opened.
HasClientMutAlways == TRUE
HasClient == client

TranscribeOutcomes ==
    IF HasClient THEN {"ok", "read_error", "backend_error", "malformed", "open_error"}
    ELSE {"disabled"}

\* line 445: `if audio_path:`
HasAudioMutAlways(a) == TRUE
HasAudio(a) == a # NoPath

\* lines 230-232: the except branch of transcribe returns None
TranscriptOfMutKeeps(a, outcome) ==
    IF outcome \in {"ok", "malformed"} THEN TranscriptPath(a) ELSE NoPath
TranscriptOf(a, outcome) == IF outcome = "ok" THEN TranscriptPath(a) ELSE NoPath

\* the artifact _process_segment was called with
VideoPath == processed[Subject][Len(processed[Subject])]

processFrame == <<sideVars, entry, budget, regen, now, session_timestamp, hstart, accumulate, running,
                  hpc, hrec, nstops, recorder_state, nsessions, recorded_segments,
                  output_file, final, acc_rounds, processed, current_process, procs,
                  variant, client, uploader_running, wpc, file_path, uploads>>

\* _process_segment returns to the loop
ProcessReturns ==
    /\ ppc' = "none"
    /\ AfterPass(Subject)

\* lines 438-443: the video is enqueued, extract_audio is called
ProcessBegin ==
    /\ lpc[Subject] = "process"
    /\ ppc = "none"
    /\ QueueUpload(VideoPath)
    /\ ppc' = "extract"
    /\ UNCHANGED <<lpc, segment_count, audio_path, audio_log, files>>
    /\ UNCHANGED processFrame

\* extract_audio returns; with an audio path the audio is enqueued and transcribe
\* is called (lines 445-451), without one _process_segment returns
ProcessExtract ==
    /\ ppc = "extract"
    /\ \E outcome \in ExtractOutcomes :
         LET a == IF outcome = "ok" THEN AudioPath(VideoPath) ELSE NoPath IN
         /\ audio_log' = Append(audio_log,
                                [op |-> "extract", path |-> VideoPath,
                                 outcome |-> Logged(outcome)])
         /\ audio_path' = a
         /\ files' = IF outcome = "ok"
                     THEN WriteFile(files, AudioPath(VideoPath), 1,
                                    FileContent(files, VideoPath))
                     ELSE files
         /\ IF HasAudio(a)
            THEN /\ QueueUploadOn(files', AudioPath(VideoPath))
                 /\ ppc' = "transcribe"
                 /\ UNCHANGED <<lpc, segment_count>>
            ELSE /\ ProcessReturns
                 /\ UNCHANGED <<upload_queue, queued>>
    /\ UNCHANGED processFrame

\* transcribe returns; a transcript path is enqueued (lines 453-454); then
\* _process_segment returns
ProcessTranscribe ==
    /\ ppc = "transcribe"
    /\ \E outcome \in TranscribeOutcomes :
         \* the path transcribe was called with
         LET a == IF HasAudio(audio_path) /\ audio_path # NoPath THEN audio_path
                  ELSE AudioPath(VideoPath) IN
         /\ audio_log' = Append(audio_log,
                                [op |-> "transcribe", path |-> a,
                                 outcome |-> Logged(outcome)])
         /\ files' = CASE outcome = "ok" ->
                            WriteFile(files, TranscriptPath(a), 2, FileContent(files, a))
                       [] outcome = "malformed" ->
                            WriteFile(files, TranscriptPath(a), 1, <<>>)
                       [] OTHER -> files
         /\ IF TranscriptOf(a, outcome) # NoPath
            THEN QueueUploadOn(files', TranscriptOf(a, outcome))
            ELSE UNCHANGED <<upload_queue, queued>>
    /\ ProcessReturns
    /\ UNCHANGED audio_path
    /\ UNCHANGED processFrame

\* ------------------------------------------------- the command line, whole
\* SpecPipe is main() of movie_recorder.py with everything it wires together: the
\* recorder and its loop, the audio unit, the upload queue with its worker, and the
\* signal handler with its shutdown sequence.
PipeSegments == 2     \* encoder processes spawned
PipeWork == 4         \* the recorder's start, stop requests and encoder spawns together

InitPipe ==
    /\ InitCommon
    /\ SideOff
    /\ entry = "cli"
    /\ budget = [sessions |-> 1, segments |-> PipeSegments, work |-> PipeWork]
    /\ nsessions = 1
    /\ \E acc \in BOOLEAN : accumulate = [r \in Recorders |-> IF r = Subject THEN acc ELSE TRUE]
    /\ running = [r \in Recorders |-> r = Subject]
    /\ lpc = [r \in Recorders |-> IF r = Subject THEN "check" ELSE "none"]
    /\ files = <<>>
    \* uploader = S3Uploader(...), lines 584-591
    /\ variant = "movie_recorder"
    /\ UploaderStarted
    /\ client \in BOOLEAN
    /\ ppc = "none"
    /\ audio_path = NoPath
    /\ audio_log = <<>>

shutdownFrame == <<sideVars, entry, budget, regen, now, session_timestamp, hstart, nstops, hrec,
                   accumulate, running, current_process, procs, files, segment_count,
                   recorded_segments, output_file, final, acc_rounds, processed,
                   recorder_state, nsessions, audioVars>>

\* lines 608-609: time.sleep(3) is over, uploader.stop() sets running = False
ShutdownDrain ==
    /\ entry = "cli"
    /\ hpc[1] = "sig_sleep"
    /\ UploaderStop
    /\ hpc' = [hpc EXCEPT ![1] = "uploader_join"]
    /\ UNCHANGED <<variant, upload_queue, wpc, file_path, queued, uploads, lpc>>
    /\ UNCHANGED shutdownFrame

\* lines 119 and 610-612: the join returns, sys.exit(0); the daemon threads die
\* with the process
ShutdownExit ==
    /\ hpc[1] = "uploader_join"
    /\ UploadJoinReturns
    /\ hpc' = [hpc EXCEPT ![1] = "exited"]
    /\ lpc' = [r \in Recorders |-> IF LoopAlive(r) THEN "aborted" ELSE lpc[r]]
    /\ wpc' = IF WorkerAlive THEN "killed" ELSE wpc
    /\ UNCHANGED <<variant, upload_queue, uploader_running, file_path, queued, uploads>>
    /\ UNCHANGED shutdownFrame

NextPipe ==
    \/ SignalHandler
    \/ StopWait5(1)
    \/ StopWait3(1)
    \/ StopWaitKilled(1)
    \/ StopJoin(1)
    \/ ShutdownDrain
    \/ ShutdownExit
    \/ LoopCheck(Subject)
    \/ LoopSpawn(Subject) /\ Calm'
    \/ LoopWait(Subject)
    \/ LoopConcat(Subject) /\ Calm'
    \/ EncoderExit(Subject) /\ Calm'
    \/ ProcessBegin
    \/ ProcessExtract
    \/ ProcessTranscribe
    \/ WorkerGet
    \/ WorkerUpload

SpecPipe == InitPipe /\ [][NextPipe]_vars

\* ================================================================== claims
Started(r) == lpc[r] # "none"
LoopEnded(r) == lpc[r] \in {"done", "crashed", "aborted"}
StopReturned(h) == hpc[h] \in {"sleep", "sig_sleep", "exited"}

\* The request layer has let go of recorder r: stop_recording ran to line 243.
Released(r) ==
    /\ entry = "api"
    /\ Started(r)
    /\ recorder_state.recorder # r
    /\ \A h \in Handlers : hrec[h] # r

\* The last encoder of r was ended by a signal of stop() and left a file that passes
\* the size check.
LastProc(r) == procs[r][Len(procs[r])]
EndedEarly(r) ==
    /\ Len(procs[r]) > 0
    /\ ~LastProc(r).alive
    /\ LastProc(r).sigs # <<>>
    /\ FileSize(files, LastProc(r).out) > SizeThreshold

\* the accumulation rounds of r whose snapshot ends with path p
RoundsFor(r, p) ==
    {k \in 1..Len(acc_rounds[r]) :
        /\ Len(acc_rounds[r][k].segments) > 0
        /\ acc_rounds[r][k].segments[Len(acc_rounds[r][k].segments)] = p}

\* C1: at most one capture session is active at any moment: never two capture loops
\* alive, never encoder processes of two different sessions alive.
C1_OneActiveSession ==
    /\ Cardinality({r \in Recorders : LoopAlive(r)}) <= 1
    /\ Cardinality({r \in Recorders : AliveProcs(r) # {}}) <= 1

\* C2: a start request that arrives while a session is recording, or while a stop
\* request is still being processed, is answered 400, creates no recorder, starts no
\* capture loop and leaves recorder_state as it is.
C2_StartRejectedWhileActive ==
    [][ (StartRequest /\ (recorder_state.is_recording \/ \E h \in Handlers : hpc[h] # "idle"))
          => (StartReply = 400 /\ UNCHANGED vars) ]_vars

\* C3: a stop request that arrives while is_recording is false is answered 400 and
\* changes nothing: recorder_state, every recorder and every process stay as they are.
C3_StopWhileIdleChangesNothing ==
    [][ \A h \in Handlers :
          (StopRequest(h) /\ ~recorder_state.is_recording)
            => (StopReply = 400 /\ UNCHANGED vars) ]_vars

C3_Witness ==
    /\ entry = "api"
    /\ ~recorder_state.is_recording
    /\ recorder_state.current_video # NoPath
    /\ recorder_state.session_id # 0
    /\ ENABLED (\E h \in Handlers : StopRequest(h))

\* C4: when stop() has returned, no encoder process of the session it stopped is running.
C4_StopLeavesNoEncoder ==
    \A h \in Handlers : StopReturned(h) => AliveProcs(hrec[h]) = {}

\* C5: the signals an encoder receives follow the order interrupt, terminate, kill.
C5_SignalOrder ==
    \A r \in Recorders : \A i \in 1..Len(procs[r]) :
        IsPrefix(procs[r][i].sigs, <<"INT", "TERM", "KILL">>)

\* C6: a session is released by the request layer only after its capture loop has
\* completed its final pass.
C6_StoppedAfterFinalPass ==
    \A r \in Recorders : Released(r) => ~LoopAlive(r)

C8_Sequential ==
    \A r \in Recorders :
        /\ Cardinality(AliveProcs(r)) <= 1
        /\ \A i \in 1..Len(procs[r]) : Alive(r, i) => i = Len(procs[r])
        /\ AliveProcs(r) # {} =>
              /\ Len(procs[r]) = segment_count[r] + 1
              /\ lpc[r] \in {"wait", "aborted"}
              /\ accumulate[r] => Len(acc_rounds[r]) = Len(recorded_segments[r])

C8_Witness ==
    \E r \in Recorders : Len(procs[r]) >= 2 /\ Alive(r, Len(procs[r]))

\* C9: every path in the segment list names a file larger than the threshold whose
\* encoder process has exited.
C9_SegmentsAreFinishedFiles ==
    \A r \in Recorders : \A k \in 1..Len(recorded_segments[r]) :
        /\ FileSize(files, recorded_segments[r][k]) > SizeThreshold
        /\ \E i \in 1..Len(procs[r]) : procs[r][i].out = recorded_segments[r][k]
        /\ \A i \in 1..Len(procs[r]) :
              procs[r][i].out = recorded_segments[r][k] => ~Alive(r, i)

C9_Witness ==
    \E r \in Recorders :
        /\ Len(recorded_segments[r]) > 0
        /\ \E q \in Recorders : \E i \in 1..Len(procs[q]) :
              ~Alive(q, i) /\ FileSize(files, procs[q][i].out) = SizeThreshold

\* C10: the segment list is append-only: in every step the old list is a prefix of the
\* new one.
C10_AppendOnly ==
    [][ \A r \in Recorders :
          IsPrefix(recorded_segments[r], recorded_segments'[r]) ]_vars

C10_Witness ==
    \E r \in Recorders : Len(recorded_segments[r]) >= 2

\* A segment was appended and its round has not run: the round is about to run, or
\* the process exited first.
RoundPending(r) ==
    \/ lpc[r] = "concat"
    \/ lpc[r] = "aborted" /\ Len(recorded_segments[r]) > Len(acc_rounds[r])

\* the rounds of r recorded so far ran on the first k accepted segments, in capture
\* order, one round per accepted segment
SnapshotsInOrder(r) ==
    /\ Len(recorded_segments[r]) =
          Len(acc_rounds[r]) + (IF RoundPending(r) THEN 1 ELSE 0)
    /\ \A k \in 1..Len(acc_rounds[r]) :
          LET round == acc_rounds[r][k] IN
          /\ round.segments = SubSeq(recorded_segments[r], 1, k)
          /\ \A i, j \in 1..k : i < j => round.segments[i][3] < round.segments[j][3]

\* a step in which a round of r runs: it reads the whole list, leaves it as it is,
\* and the file it writes holds the segments of the list
RoundRuns(r) ==
    Len(acc_rounds'[r]) = Len(acc_rounds[r]) + 1 =>
        LET round == acc_rounds'[r][Len(acc_rounds'[r])] IN
        /\ round.segments = recorded_segments[r]
        /\ recorded_segments'[r] = recorded_segments[r]
        /\ round.result # NoPath => FileContent(files', round.result) = round.segments

\* C11: in accumulate mode the k-th accumulation round of a session runs on exactly
\* the k segments accepted so far, in capture order, the new one and those of failed
\* rounds included; the list stays as it is while the round runs (one accepted
\* segment, one round), and the file the round writes holds those k segments.
C11_ConsistentSnapshot ==
    /\ [](\A r \in Recorders : SnapshotsInOrder(r))
    /\ [][\A r \in Recorders : RoundRuns(r)]_vars

\* a third round succeeded on three segments after the second round had failed
C11_Witness ==
    \E r \in Recorders :
        /\ Len(acc_rounds[r]) = 3
        /\ acc_rounds[r][2].result = NoPath
        /\ acc_rounds[r][3].result # NoPath
        /\ Len(FileContent(files, acc_rounds[r][3].result)) = 3

\* the accumulation rounds of r that produced a file
GoodRounds(r) == {k \in 1..Len(acc_rounds[r]) : acc_rounds[r][k].result # NoPath}

\* the file of the latest successful round of r
LatestAccumulated(r) ==
    acc_rounds[r][CHOOSE k \in GoodRounds(r) : \A j \in GoodRounds(r) : j <= k].result

\* the session of recorder r is Recording: started by the request layer, not stopped
Recording(r) ==
    /\ entry = "api"
    /\ recorder_state.is_recording
    /\ recorder_state.recorder = r
    /\ \A h \in Handlers : hpc[h] = "idle"

\* C12: while a session in accumulate mode is Recording, the status request reports
\* as current video the file of the session's latest successful accumulation round.
C12_StatusShowsLatestAccumulation ==
    \A r \in Recorders :
        (Recording(r) /\ accumulate[r] /\ GoodRounds(r) # {}) =>
            get_recording_status.current_video = LatestAccumulated(r)

\* the files the encoders of r were told to write
RawSegments(r) == {procs[r][i].out : i \in 1..Len(procs[r])}

\* C13: the current video exposed by the stop request of the current session is the
\* latest accumulated file of that session if a round of it succeeded, otherwise a
\* raw segment of that session (or nothing); never a file of another session.
C13_CurrentVideoOfStoppedSession ==
    [][ \A h \in Handlers :
          (StopFinish(h) /\ recorder_state.recorder = hrec[h]) =>
            LET r == hrec[h]
                video == recorder_state'.current_video
            IN  IF GoodRounds(r) # {}
                THEN video = LatestAccumulated(r)
                ELSE video = NoPath \/ video \in RawSegments(r) ]_vars

\* C15: a round of accumulation that fails is not fatal to the session: the capture
\* loop stays alive, the accepted segment stays in the list, nothing is fanned out
\* for the round, and the loop goes on to the next segment (or ends, after the
\* final pass).
C15_FailedRoundNotFatal ==
    [][ \A r \in Recorders :
          (/\ Len(acc_rounds'[r]) = Len(acc_rounds[r]) + 1
           /\ acc_rounds'[r][Len(acc_rounds'[r])].result = NoPath) =>
              /\ lpc'[r] = (IF final[r] THEN "done" ELSE "check")
              /\ recorded_segments'[r] = recorded_segments[r]
              /\ processed'[r] = processed[r]
              /\ recorder_state' = recorder_state ]_vars

\* C19: when the first encoder of a session cannot be spawned, the session never
\* entered Recording and the controller is Idle: is_recording is false and no
\* recorder is retained.
C19_SpawnFailureIsStartFailure ==
    \A r \in Recorders :
        (entry = "api" /\ lpc[r] = "crashed" /\ procs[r] = <<>>) =>
            /\ recorder_state.recorder # r
            /\ ~(recorder_state.is_recording /\ recorder_state.session_id = r)

\* the segment the loop of r is waiting for has failed: nonzero exit code, or no
\* file, or a file not above the threshold
SegmentFailed(r) ==
    \/ procs[r][current_process[r]].returncode # 0
    \/ FileSize(files, output_file[r]) = NoFile
    \/ FileSize(files, output_file[r]) <= SizeThreshold

\* C20: while no stop was requested, a failed segment is discarded: it is not appended,
\* not accumulated and not fanned out, recorder_state stays as it is, and the loop
\* goes on to the next segment with the next index.
C20_FailedSegmentDiscarded ==
    [][ \A r \in Recorders :
          (LoopWait(r) /\ running[r] /\ SegmentFailed(r)) =>
              /\ recorded_segments' = recorded_segments
              /\ acc_rounds' = acc_rounds
              /\ processed' = processed
              /\ recorder_state' = recorder_state
              /\ lpc'[r] = "check"
              /\ segment_count'[r] = segment_count[r] + 1 ]_vars

\* a segment at the threshold was left out and the next one is being captured
C20_Witness ==
    \E r \in Recorders :
        /\ running[r]
        /\ Len(procs[r]) >= 2
        /\ procs[r][1].returncode = 0
        /\ FileSize(files, procs[r][1].out) = SizeThreshold
        /\ Alive(r, 2)
        /\ recorded_segments[r] = <<>>
        /\ processed[r] = <<>>

\* the path the k-th accumulation round of r wrote to
RoundPath(r, k) == AccumulatedPath(session_timestamp[r], acc_rounds[r][k].index)

\* C14: every accumulation round writes to a path that no other round has written:
\* no accumulated file is ever overwritten.
C14_FreshAccumulatedPath ==
    \A r1, r2 \in Recorders :
        \A k1 \in 1..Len(acc_rounds[r1]) : \A k2 \in 1..Len(acc_rounds[r2]) :
            (r1 # r2 \/ k1 # k2) => RoundPath(r1, k1) # RoundPath(r2, k2)

\* the calls of _concatenate_segments that have returned (not raised)
ReturnedCalls == {k \in 1..Len(regen.calls) : ~regen.calls[k].raised}

\* C16: for a merge of two or more segments the manifest is there, listing the
\* segments, when the merge tool is invoked, and is gone when the call returns,
\* however the merge ended.
C16_ManifestLifecycle ==
    /\ regen.pc = "merge" =>
          FileContent(files, ManifestPath(segment_count[Subject])) = Snapshot(Subject)
    /\ \A k \in ReturnedCalls :
          regen.calls[k].merged =>
              /\ regen.calls[k].manifest = regen.calls[k].segments
              /\ ~regen.calls[k].leftover

\* a merge that timed out or raised has returned
C16_Witness ==
    \E k \in ReturnedCalls :
        /\ Len(regen.calls[k].segments) >= 2
        /\ regen.calls[k].merged
        /\ regen.calls[k].result = NoPath
        /\ ~regen.calls[k].written
        /\ \E j \in ReturnedCalls : regen.calls[j].merged /\ regen.calls[j].result # NoPath

\* C17: on an empty list the call returns null, writes no file and invokes no merge
\* tool; on a list of one segment a call that returns has written, without the
\* merge tool and without a manifest, a file other than the segment with the
\* segment's size and content.
C17_EmptyAndSingle ==
    \A k \in 1..Len(regen.calls) :
        LET call == regen.calls[k] IN
        /\ call.segments = <<>> =>
              /\ ~call.raised
              /\ call.result = NoPath
              /\ ~call.written /\ ~call.merged /\ ~call.leftover
        /\ (Len(call.segments) = 1 /\ ~call.raised) =>
              /\ call.result = AccumulatedPath(session_timestamp[Subject], call.index)
              /\ call.result # call.segments[1]
              /\ call.written /\ ~call.merged /\ ~call.leftover
              /\ call.size = FileSize(files, call.segments[1])
              /\ call.content = FileContent(files, call.segments[1])
              /\ FileSize(files, call.segments[1]) > SizeThreshold

\* a call on the empty list, then a call on one segment
C17_Witness ==
    /\ Len(regen.calls) = 2
    /\ regen.calls[1].segments = <<>>
    /\ Len(regen.calls[2].segments) = 1
    /\ regen.calls[2].size = SizeThreshold + 2
    /\ FileSize(files, regen.calls[2].result) = SizeThreshold + 2

Puts(p) == {k \in 1..Len(queued) : queued[k].put /\ queued[k].path = p}

\* the calls of _upload_file on p, finished or in progress
Handed(p) ==
    Cardinality({k \in 1..Len(uploads) : uploads[k].path = p})
        + (IF wpc = "upload" /\ file_path = p THEN 1 ELSE 0)

\* the jobs for p waiting in the queue
Waiting(p) == Count(upload_queue, p)

QueuedPaths == {queued[k].path : k \in 1..Len(queued)}

\* C26: in movie_recorder.py a call of queue_upload on a path that does not exist,
\* or whose file has zero bytes at that moment, leaves the queue as it is, and no
\* upload is attempted on its account: every job waiting or handed to the upload
\* step stems from a call that saw a non-empty file.
C26_EnqueueNoOp ==
    variant = "movie_recorder" =>
        /\ \A k \in 1..Len(queued) :
              queued[k].size \in {NoFile, 0} => ~queued[k].put
        /\ \A p \in QueuedPaths \cup {file_path} \cup {upload_queue[k] : k \in 1..Len(upload_queue)} :
              p # NoPath => Waiting(p) + Handed(p) <= Cardinality(Puts(p))

\* a missing path and an empty file were enqueued, the worker has drained and ended,
\* and nothing was uploaded
C26_Witness ==
    /\ variant = "movie_recorder"
    /\ Len(queued) = 2
    /\ queued[1].size = NoFile
    /\ queued[2].size = 0
    /\ upload_queue = <<>>
    /\ uploads = <<>>
    /\ wpc = "exited"

\* a step in which a call of _upload_file ends in failure
UploadFails ==
    /\ Len(uploads') = Len(uploads) + 1
    /\ uploads'[Len(uploads')].outcome = "failed"

\* C28: when an upload fails the job is gone: the step puts nothing back on the
\* queue, no path is ever handed to the upload step more often than it was
\* enqueued, and the worker is back at its loop, alive, ready for the next job.
C28_FailedUploadDropped ==
    /\ [](\A p \in QueuedPaths : Waiting(p) + Handed(p) <= Cardinality(Puts(p)))
    /\ [][UploadFails =>
             /\ upload_queue' = upload_queue
             /\ queued' = queued
             /\ wpc' = "get"
             /\ file_path' = NoPath]_vars

\* a failed upload, then the next job uploaded
C28_Witness ==
    /\ Len(uploads) = 2
    /\ uploads[1].outcome = "failed"
    /\ uploads[2].outcome = "ok"
    /\ uploads[1].path # uploads[2].path
    /\ upload_queue = <<>>

\* C30: whatever the outcome of an upload, the step of the upload queue that ends
\* it, like every other step of the worker, leaves every local file as it was.
C30_LocalFileRemains ==
    [][(wpc' # wpc \/ Len(uploads') > Len(uploads)) => files' = files]_vars

\* ------------------------------------------------------------ the audio unit
\* the calls of extract_audio / transcribe so far that ended as `outcome`
AudioCalls(op, outcome) ==
    {k \in 1..Len(audio_log) : audio_log[k].op = op /\ audio_log[k].outcome = outcome}

\* the calls of queue_upload on p
QueueCalls(p) == {k \in 1..Len(queued) : queued[k].path = p}

\* a step in which transcribe ends with an error of the backend
TranscribeFails ==
    /\ Len(audio_log') = Len(audio_log) + 1
    /\ audio_log'[Len(audio_log')].op = "transcribe"
    /\ audio_log'[Len(audio_log')].outcome = "failed"

\* C21: an error inside transcribe stays inside it: the call returns no transcript
\* path, queue_upload is never called for a transcript of that audio, the record
\* thread does not end with an exception, and the step that ends the failed call
\* returns the thread to the loop (to its test, or to its end after the final
\* segment) without touching the running flag or the queue.
C21_TranscribeErrorContained ==
    /\ [](/\ lpc[Subject] # "crashed"
          /\ \A k \in AudioCalls("transcribe", "failed") :
                QueueCalls(TranscriptPath(audio_log[k].path)) = {})
    /\ [][TranscribeFails =>
             /\ ppc' = "none"
             /\ lpc'[Subject] = (IF final[Subject] THEN "done" ELSE "check")
             /\ running' = running
             /\ upload_queue' = upload_queue
             /\ queued' = queued]_vars

\* a response without text left a truncated transcript that was never enqueued,
\* and the loop, still running, has spawned the next encoder
C21_Witness ==
    /\ \E k \in AudioCalls("transcribe", "failed") :
          /\ FileSize(files, TranscriptPath(audio_log[k].path)) = 1
          /\ audio_log[k].path[4] = 0
    /\ running[Subject]
    /\ Len(procs[Subject]) = 2
    /\ lpc[Subject] = "wait"

\* C22: without a transcription client every video whose audio was extracted has
\* its audio enqueued, every call of transcribe returns at once without a path,
\* no transcript is written or enqueued, and the record thread never ends with an
\* exception.
C22_NoClientAudioOnly ==
    ~client =>
        /\ lpc[Subject] # "crashed"
        /\ \A k \in AudioCalls("extract", "ok") :
              \E j \in QueueCalls(AudioPath(audio_log[k].path)) : queued[j].put
        /\ \A k \in 1..Len(audio_log) :
              audio_log[k].op = "transcribe" => audio_log[k].outcome = "disabled"
        /\ \A k \in 1..Len(queued) : queued[k].path[1] # "transcript"
        /\ \A i \in 1..Len(files) : files[i].path[1] # "transcript"

\* without a client, the audio of a segment was extracted and uploaded, transcribe
\* returned without a path, and the loop went on
C22_Witness ==
    /\ ~client
    /\ AudioCalls("transcribe", "disabled") # {}
    /\ \E k \in 1..Len(uploads) : uploads[k].path[1] = "mp3" /\ uploads[k].outcome = "ok"
    /\ lpc[Subject] = "wait"
    /\ Len(procs[Subject]) = 2

\* C23: for a video whose audio extraction failed, transcribe is never called and
\* neither its audio nor a transcript of it is ever passed to queue_upload.
C23_ExtractionFailureSkipsAll ==
    \A k \in AudioCalls("extract", "failed") :
        LET a == AudioPath(audio_log[k].path) IN
        /\ \A j \in 1..Len(audio_log) :
              audio_log[j].op = "transcribe" => audio_log[j].path # a
        /\ QueueCalls(a) = {}
        /\ QueueCalls(TranscriptPath(a)) = {}

\* the extraction of the first artifact failed, its video was still enqueued, and
\* the second artifact went through extraction and transcription
C23_Witness ==
    /\ Len(audio_log) = 3
    /\ audio_log[1].op = "extract" /\ audio_log[1].outcome = "failed"
    /\ QueueCalls(audio_log[1].path) # {}
    /\ audio_log[2].op = "extract" /\ audio_log[2].outcome = "ok"
    /\ audio_log[3].op = "transcribe" /\ audio_log[3].outcome = "ok"

\* C24: while a transcription is in progress the capture loop is not held by it:
\* the record thread is at its loop test, spawning an encoder or waiting for one.
C24_TranscriptionDoesNotHoldLoop ==
    ppc = "transcribe" => lpc[Subject] \in {"check", "spawn", "wait"}

\* C25: the shutdown that follows a stop request never cuts short a merge, an
\* audio extraction or a transcription that is in progress.
C25_StopCutsOnlyEncoder ==
    [][\A r \in Recorders :
          (lpc'[r] = "aborted" /\ lpc[r] # "aborted") => lpc[r] \notin {"concat", "process"}]_vars

\* C27: no path is handed to the upload step more often than it was enqueued, and
\* once the worker has ended of its own accord every enqueued path has been handed
\* to the upload step as often as it was enqueued.
C27_ConsumedExactlyOnce ==
    /\ \A p \in QueuedPaths : Waiting(p) + Handed(p) = Cardinality(Puts(p))
    /\ wpc = "exited" => \A p \in QueuedPaths : Handed(p) = Cardinality(Puts(p))

\* what the capture side owns: the recorder, its loop and encoders, the audio
\* unit, the shutdown sequence
captureVars == <<recorder_state, nsessions, nstops, hpc, hrec, hstart, session_timestamp,
                 accumulate, running, segment_count, recorded_segments, current_process,
                 procs, lpc, output_file, final, acc_rounds, processed, client, ppc,
                 audio_path, audio_log>>

\* a step of the upload worker
WorkerStep ==
    \/ file_path' # file_path
    \/ uploads' # uploads
    \/ wpc' = "exited" /\ wpc # "exited"

\* C29: capture and upload meet in the queue only, and in one direction: a step of
\* the upload worker, however its upload ended, leaves the capture side and every
\* local file as they were, and a step of the capture side at most appends to the
\* queue.
C29_CaptureIndependentOfUploads ==
    [][IF WorkerStep
       THEN UNCHANGED captureVars /\ files' = files
       ELSE IsPrefix(upload_queue, upload_queue') /\ uploads' = uploads]_vars

\* every upload failed; both segments were captured, went through the audio unit
\* and are on disk, and the shutdown has run to its end
C29_Witness ==
    /\ Len(uploads) >= 2
    /\ \A k \in 1..Len(uploads) : uploads[k].outcome = "failed"
    /\ Len(processed[Subject]) = 2
    /\ \A k \in 1..2 : FileSize(files, processed[Subject][k]) > SizeThreshold
    /\ lpc[Subject] = "done"
    /\ hpc[1] = "exited"

\* ------------------------------------------------------ request layer, shutdown, indices
\* C38: in the shutdown of the command line nothing is put on the queue once the
\* upload worker has ended, so the worker never leaves a job behind.
C38_NothingEnqueuedAfterWorkerExit ==
    /\ wpc = "exited" => upload_queue = <<>>
    /\ [][wpc = "exited" => upload_queue' = upload_queue]_vars

\* C31: once stop() of the uploader has returned, whether the worker had drained the
\* queue or the join had timed out, the worker takes no further job from the queue:
\* what is still queued is abandoned.
C31_AbandonedPastBudget ==
    [][hpc[1] = "stopped" => (wpc' = "upload" => wpc = "upload")]_vars

\* the paths that were put on the queue, in the order of the calls
PutSeq == [k \in 1..Len(SelectSeq(queued, LAMBDA e : e.put)) |->
              SelectSeq(queued, LAMBDA e : e.put)[k].path]

\* the paths handed to _upload_file, in the order of the calls, the call that has
\* not returned last
AttemptSeq ==
    [k \in 1..Len(uploads) |-> uploads[k].path]
        \o (IF file_path # NoPath THEN <<file_path>> ELSE <<>>)

\* C32: the one worker attempts the uploads in the order the jobs were put: the
\* attempts so far, then the jobs waiting, are the puts so far; and an upload begins
\* only when none is in progress, the one before it having returned.
C32_FifoSingleWorker ==
    /\ [](AttemptSeq \o upload_queue = PutSeq)
    /\ [][Len(AttemptSeq') > Len(AttemptSeq) =>
             /\ wpc = "get"
             /\ Len(AttemptSeq) = Len(uploads)
             /\ Len(AttemptSeq') = Len(AttemptSeq) + 1]_vars

\* two different artifacts were put; the upload of the first has returned and the
\* upload of the second is in progress
C32_Witness ==
    /\ Len(PutSeq) = 2
    /\ PutSeq[1] # PutSeq[2]
    /\ Len(uploads) = 1
    /\ uploads[1].path = PutSeq[1]
    /\ wpc = "upload"
    /\ file_path = PutSeq[2]

\* the results of the accumulation rounds that returned a path, in order
NonNullResults(r) ==
    LET done == SelectSeq(acc_rounds[r], LAMBDA e : e.result # NoPath)
    IN  [k \in 1..Len(done) |-> done[k].result]

\* the step in which the loop accepts the segment it waited for: lines 463 and 478-479
AcceptedStep(r) ==
    /\ lpc[r] = "wait"
    /\ lpc'[r] \notin {"wait", "aborted"}      \* the thread is there to take the branch
    /\ SizeOk(files, output_file[r])
    /\ (procs[r][current_process[r]].returncode = 0 \/ ~running[r])

\* C33: in accumulate mode the paths handed to _process_segment are the non-null
\* results of the accumulation rounds, one for one, never a raw segment; without
\* accumulation they are the accepted raw segments, each handed over once, in the
\* step that accepts it.
C33_FanOutArtifacts ==
    /\ [](\A r \in Recorders :
            IF accumulate[r]
            THEN /\ processed[r] = NonNullResults(r)
                 /\ \A k \in 1..Len(processed[r]) :
                       /\ processed[r][k][1] = "accumulated"
                       /\ \A i \in 1..Len(procs[r]) : processed[r][k] # procs[r][i].out
            ELSE \A i, j \in 1..Len(processed[r]) :
                       i # j => processed[r][i] # processed[r][j])
    /\ [][\A r \in Recorders :
            ~accumulate[r] =>
                processed'[r] = IF AcceptedStep(r)
                                THEN Append(processed[r], output_file[r])
                                ELSE processed[r]]_vars

\* an accumulating session whose first round returned a path and whose second
\* round returned None: one path was handed on, the accumulated one
C33_Witness ==
    \E r \in Recorders :
        /\ accumulate[r]
        /\ Len(acc_rounds[r]) = 2
        /\ acc_rounds[r][1].result # NoPath
        /\ acc_rounds[r][2].result = NoPath
        /\ processed[r] = <<acc_rounds[r][1].result>>
        /\ Len(recorded_segments[r]) = 2

\* C35: once stop() has been called on a recorder its capture loop spawns no further
\* encoder, makes at most the one fan-out pass of the segment in flight, and ends.
\* The safety part: an encoder is spawned only while running is true.
C35_NoSpawnAfterStop ==
    [][\A r \in Recorders : Len(procs'[r]) > Len(procs[r]) => running[r]]_vars

\* C36: within a session the encoders get the indices 0, 1, 2, ... in the order
\* they are spawned, each greater than all before it, whether the segment before
\* was accepted or discarded; so the output paths of a session differ, and so do
\* the indices of its accumulation rounds.
C36_SegmentIndexMonotonic ==
    \A r \in Recorders :
        /\ \A i \in 1..Len(procs[r]) :
              /\ procs[r][i].out[3] >= 0
              /\ i = 1 => procs[r][i].out[3] = 0
              /\ \A j \in 1..Len(procs[r]) :
                    i < j => /\ procs[r][i].out[3] < procs[r][j].out[3]
                             /\ procs[r][i].out # procs[r][j].out
        /\ \A i, j \in 1..Len(acc_rounds[r]) :
              i < j => acc_rounds[r][i].index < acc_rounds[r][j].index

\* a session whose first segment was discarded and whose next two were accepted
\* and accumulated
C36_Witness ==
    \E r \in Recorders :
        /\ Len(procs[r]) = 3
        /\ recorded_segments[r] = <<procs[r][2].out, procs[r][3].out>>
        /\ Len(acc_rounds[r]) = 2
        /\ acc_rounds[r][1].index = 1
        /\ acc_rounds[r][2].index = 2

\* C37: in the request layer a recorder that was started and not stopped, with its
\* capture loop or one of its encoders alive, is the one recorder_state refers to,
\* with is_recording true.
C37_NoOrphanedRecorder ==
    entry = "api" =>
        \A r \in Recorders :
            (running[r] /\ (LoopAlive(r) \/ AliveProcs(r) # {})) =>
                /\ recorder_state.is_recording
                /\ recorder_state.recorder = r

\* ------------------------------------------------------------ quality presets
\* _record_segment called on recorders of every quality, on every platform
MaxCmds == 3          \* calls of _record_segment looked at
Tiers == {"low", "medium", "high"}
\* the request layer passes any string on (api.py line 135), the command line one of
\* the three choices (line 553)
Qualities == Tiers \cup {"ultra"}
Platforms == {"darwin", "linux", "win32", "cygwin"}

\* self.quality_presets: the CRF strings, digit by digit
quality_presets == [low |-> <<2, 8>>, medium |-> <<2, 3>>, high |-> <<1, 8>>]

\* dict.get(key, default)
Get(d, key, default) == IF key \in DOMAIN d THEN d[key] ELSE default

CrfMutDefault(q) == <<2, 3>>

\* crf = self.quality_presets.get(self.quality, "23")
Crf(q) == Get(quality_presets, q, <<2, 3>>)

\* the number the encoder reads from the argument of -crf
RECURSIVE Decimal(_)
Decimal(digits) ==
    IF digits = <<>> THEN 0
    ELSE 10 * Decimal(SubSeq(digits, 1, Len(digits) - 1)) + digits[Len(digits)]

InitQuality ==
    /\ InitCommon
    /\ PipelineOff
    /\ entry \in {"api", "cli"}
    /\ budget = [sessions |-> MaxSessions, segments |-> MaxSegments, work |-> MaxWork]
    /\ nsessions = 1
    /\ accumulate = [r \in Recorders |-> FALSE]
    /\ running = [r \in Recorders |-> FALSE]
    /\ lpc = [r \in Recorders |-> "none"]
    /\ files = <<>>
    /\ quality \in (IF entry = "api" THEN Qualities ELSE Tiers)
    /\ platform \in Platforms
    /\ cmds = <<>>
    /\ WatcherOff

qualityFrame == <<pipeVars, entry, budget, regen, now, recorder_state, nsessions, nstops, hpc,
                  hrec, hstart, session_timestamp, accumulate, running, segment_count,
                  recorded_segments, current_process, procs, lpc, output_file, final,
                  acc_rounds, processed, files, platform, watcherVars>>

\* MovieRecorder(..., quality=config.quality, ...): the recorder of another request
NewRecorder ==
    /\ entry = "api"
    /\ \E q \in Qualities : quality' = q
    /\ UNCHANGED <<qualityFrame, cmds>>

\* _record_segment up to the command it hands to Popen; any other platform than the
\* three it knows raises after the CRF was looked up
RecordSegment ==
    /\ Len(cmds) < MaxCmds
    /\ cmds' = Append(cmds, [quality |-> quality, crf |-> Crf(quality),
                             built |-> platform \in {"darwin", "linux", "win32"}])
    /\ UNCHANGED <<qualityFrame, quality>>

NextQuality ==
    \/ NewRecorder
    \/ RecordSegment

SpecQuality == InitQuality /\ [][NextQuality]_vars

TierRank == [low |-> 1, medium |-> 2, high |-> 3]

\* C34: the commands built for the tiers low, medium and high carry three different
\* CRF values, the one of a lower tier greater than the one of a higher tier.
C34_QualityTiersOrdered ==
    \A i, j \in 1..Len(cmds) :
        (/\ cmds[i].quality \in Tiers
         /\ cmds[j].quality \in Tiers
         /\ TierRank[cmds[i].quality] < TierRank[cmds[j].quality])
        => /\ Decimal(cmds[i].crf) > Decimal(cmds[j].crf)
           /\ cmds[i].crf # cmds[j].crf

\* one command of each tier was built
C34_Witness ==
    /\ Len(cmds) = 3
    /\ cmds[1].quality = "low" /\ cmds[1].built
    /\ cmds[2].quality = "medium" /\ cmds[2].built
    /\ cmds[3].quality = "high" /\ cmds[3].built
    /\ Decimal(cmds[1].crf) = 28
    /\ Decimal(cmds[2].crf) = 23
    /\ Decimal(cmds[3].crf) = 18

\* ------------------------------------- screen_recorder_with_audio.py: main()
\* One ffmpeg process writes the segments (-f segment), the FileWatcher polls the
\* directory and hands completed segments to the S3Uploader of that module, and
\* signal_handler stops the three in turn.
WatchSegments == 2    \* segment files the muxer opens
MaxBytes == 2         \* writes to a segment file

\* recording_{timestamp}_%03d.mp4, one timestamp for the run
RecordingPath(idx) == <<"recording", 1, idx>>

\* the segment the muxer is writing, NoPath before the first one
OpenSegment ==
    IF process.segments = 0 THEN NoPath ELSE RecordingPath(process.segments - 1)

\* watch_dir.glob("*.mp4")
Glob(fs) == {fs[i].path : i \in 1..Len(fs)}

\* sorted(watch_dir.glob("*.mp4"), key=os.path.getmtime)
SortedGlob(fs) == [i \in 1..Len(fs) |-> fs[i].path]

\* main(), lines 300-325: the uploader, recorder.start(), watcher.start() on a
\* directory without recordings
InitWatch ==
    /\ InitCommon
    /\ DriverDefault
    /\ entry = "cli"
    /\ budget = [sessions |-> MaxSessions, segments |-> MaxSegments, work |-> MaxWork]
    /\ nsessions = 0
    /\ accumulate = [r \in Recorders |-> FALSE]
    /\ running = [r \in Recorders |-> FALSE]
    /\ lpc = [r \in Recorders |-> "none"]
    /\ files = <<>>
    /\ variant = "screen_recorder_with_audio"
    /\ UploaderStarted
    /\ AudioOff
    /\ process = [state |-> "running", segments |-> 0]
    /\ watcher_running = TRUE
    /\ known_files = Glob(files)
    /\ wtpc = "test"
    /\ current_files = {}
    /\ new_files = {}
    /\ watch_file = NoPath
    /\ size1 = 0
    /\ remaining_files = <<>>

\* what main() of screen_recorder_with_audio.py does not have
watchFrame == <<driverVars, audioVars, entry, budget, regen, now, recorder_state, nsessions,
                nstops, hrec, hstart, session_timestamp, accumulate, running, segment_count,
                recorded_segments, current_process, procs, lpc, output_file, final,
                acc_rounds, processed>>

watchLocals == <<current_files, new_files, watch_file, size1>>

\* ffmpeg -f segment closes the segment it has open and opens the next file
MuxerOpen ==
    /\ process.state = "running"
    /\ process.segments < WatchSegments
    /\ process' = [process EXCEPT !.segments = @ + 1]
    /\ files' = WriteFile(files, RecordingPath(process.segments), 0,
                          <<RecordingPath(process.segments)>>)
    /\ UNCHANGED <<watcher_running, known_files, wtpc, watchLocals, remaining_files>>
    /\ UNCHANGED <<uploaderVars, hpc, watchFrame>>

\* ffmpeg writes to the segment it has open
MuxerWrite ==
    /\ process.state \in {"running", "quitting"}
    /\ FileSize(files, OpenSegment) \in 0..(MaxBytes - 1)
    /\ files' = WriteFile(files, OpenSegment, FileSize(files, OpenSegment) + 1,
                          <<OpenSegment>>)
    /\ UNCHANGED <<watcherVars, uploaderVars, hpc, watchFrame>>

\* ffmpeg has read the q and exits
MuxerExit ==
    /\ process.state = "quitting"
    /\ process' = [process EXCEPT !.state = "exited"]
    /\ UNCHANGED <<watcher_running, known_files, wtpc, watchLocals, remaining_files>>
    /\ UNCHANGED <<files, uploaderVars, hpc, watchFrame>>

\* _watch_loop, line 238: while self.running
WatchTest ==
    /\ wtpc = "test"
    /\ wtpc' = IF watcher_running THEN "sleep" ELSE "done"
    /\ UNCHANGED <<process, watcher_running, known_files, watchLocals, remaining_files>>
    /\ UNCHANGED <<files, uploaderVars, hpc, watchFrame>>

\* lines 239-242: the sleep of 5 s is over; the directory is read
WatchScan ==
    /\ wtpc = "sleep"
    /\ current_files' = Glob(files)
    /\ new_files' = Glob(files) \ known_files
    /\ wtpc' = "pick"
    /\ UNCHANGED <<process, watcher_running, known_files, watch_file, size1, remaining_files>>
    /\ UNCHANGED <<files, uploaderVars, hpc, watchFrame>>

\* lines 244-249 and 261: the next new file and its first stat, or the end of the
\* pass; stat raises in the thread when the file is gone
WatchPick ==
    /\ wtpc = "pick"
    /\ IF new_files = {}
       THEN /\ known_files' = current_files
            /\ wtpc' = "test"
            /\ UNCHANGED <<new_files, watch_file, size1>>
       ELSE \E f \in new_files :
              /\ new_files' = new_files \ {f}
              /\ watch_file' = f
              /\ IF FileSize(files, f) = NoFile
                 THEN wtpc' = "crashed" /\ UNCHANGED size1
                 ELSE wtpc' = "stat" /\ size1' = FileSize(files, f)
              /\ UNCHANGED known_files
    /\ UNCHANGED <<process, watcher_running, current_files, remaining_files>>
    /\ UNCHANGED <<files, uploaderVars, hpc, watchFrame>>

\* lines 255-256: the file is not the most recent one of the directory
NotMostRecent(fs, f) == Len(fs) > 1 /\ f # SortedGlob(fs)[Len(fs)]

\* lines 250-258: the second stat, half a second later, and the decision
WatchStat ==
    /\ wtpc = "stat"
    /\ LET size2 == FileSize(files, watch_file) IN
       IF size2 = NoFile
       THEN /\ wtpc' = "crashed"
            /\ UNCHANGED <<known_files, upload_queue, queued>>
       ELSE /\ wtpc' = "pick"
            /\ IF size1 = size2 /\ size1 > 0 /\ NotMostRecent(files, watch_file)
               THEN /\ QueueUpload(watch_file)
                    /\ known_files' = known_files \cup {watch_file}
               ELSE UNCHANGED <<known_files, upload_queue, queued>>
    /\ UNCHANGED <<process, watcher_running, watchLocals, remaining_files>>
    /\ UNCHANGED <<variant, uploader_running, wpc, file_path, uploads>>
    /\ UNCHANGED <<files, hpc, watchFrame>>

\* signal_handler, line 313: recorder.stop() writes q to the encoder
WatchSignal ==
    /\ hpc[1] = "idle"
    /\ process.state = "running"
    /\ process' = [process EXCEPT !.state = "quitting"]
    /\ hpc' = [hpc EXCEPT ![1] = "recorder_wait"]
    /\ UNCHANGED <<watcher_running, known_files, wtpc, watchLocals, remaining_files>>
    /\ UNCHANGED <<files, uploaderVars, watchFrame>>

\* process.wait(timeout=10) returns; watcher.stop(), lines 265-268: running = False
\* and the directory is read
WatcherStop ==
    /\ hpc[1] = "recorder_wait"
    /\ process.state = "exited"
    /\ watcher_running' = FALSE
    /\ remaining_files' = SortedGlob(files)
    /\ hpc' = [hpc EXCEPT ![1] = "sweep"]
    /\ UNCHANGED <<process, known_files, wtpc, watchLocals>>
    /\ UNCHANGED <<files, uploaderVars, watchFrame>>

\* lines 269-270: for f in remaining_files: self.uploader.queue_upload(str(f))
WatcherSweep ==
    /\ hpc[1] = "sweep"
    /\ remaining_files # <<>>
    /\ QueueUpload(Head(remaining_files))
    /\ remaining_files' = Tail(remaining_files)
    /\ UNCHANGED <<process, watcher_running, known_files, wtpc, watchLocals>>
    /\ UNCHANGED <<variant, uploader_running, wpc, file_path, uploads>>
    /\ UNCHANGED <<files, hpc, watchFrame>>

\* line 315: uploader.stop()
WatchDrain ==
    /\ hpc[1] = "sweep"
    /\ remaining_files = <<>>
    /\ UploaderStop
    /\ hpc' = [hpc EXCEPT ![1] = "uploader_join"]
    /\ UNCHANGED <<variant, upload_queue, wpc, file_path, queued, uploads>>
    /\ UNCHANGED <<files, watcherVars, watchFrame>>

\* lines 83 and 316-317: the join returns, sys.exit(0); the daemon threads die with
\* the process
WatchExit ==
    /\ hpc[1] = "uploader_join"
    /\ UploadJoinReturns
    /\ hpc' = [hpc EXCEPT ![1] = "exited"]
    /\ wpc' = IF WorkerAlive THEN "killed" ELSE wpc
    /\ wtpc' = IF wtpc \in {"test", "sleep", "pick", "stat"} THEN "aborted" ELSE wtpc
    /\ UNCHANGED <<process, watcher_running, known_files, watchLocals, remaining_files>>
    /\ UNCHANGED <<variant, upload_queue, uploader_running, file_path, queued, uploads>>
    /\ UNCHANGED <<files, watchFrame>>

NextWatch ==
    \/ MuxerOpen
    \/ MuxerWrite
    \/ MuxerExit
    \/ WatchTest
    \/ WatchScan
    \/ WatchPick
    \/ WatchStat
    \/ WatchSignal
    \/ WatcherStop
    \/ WatcherSweep
    \/ WatchDrain
    \/ WatchExit
    \/ WorkerGet
    \/ WorkerUpload

SpecWatch == InitWatch /\ [][NextWatch]_vars

\* C40: over a run of the file watcher, the watch loop and the final sweep of
\* FileWatcher.stop() together, no segment file is put on the upload queue twice.
C40_QueuedAtMostOnce ==
    \A p \in QueuedPaths : Cardinality(Puts(p)) <= 1

\* the threads of the process are scheduled: the watch loop and the upload worker
\* go on; when ffmpeg writes and when the signal comes is up to the outside
SpecWatchLive ==
    /\ InitWatch
    /\ [][NextWatch]_vars
    /\ WF_vars(WatchTest)
    /\ WF_vars(WatchScan)
    /\ WF_vars(WatchPick)
    /\ WF_vars(WatchStat)
    /\ WF_vars(WorkerGet)
    /\ WF_vars(WorkerUpload)

RecordingPaths == {RecordingPath(i) : i \in 0..(WatchSegments - 1)}

\* a segment the muxer has closed, with data in it, and no longer the most recent
\* file of the directory
Completed(p) ==
    /\ FileSize(files, p) > 0
    /\ p # OpenSegment
    /\ NotMostRecent(files, p)

\* C39: while the recording goes on, every completed segment is put on the upload
\* queue by the watch loop sooner or later, without the watcher being stopped.
C39_CompletedEventuallyQueued ==
    \A p \in RecordingPaths :
        Completed(p) ~> (Puts(p) # {} \/ hpc[1] # "idle")

====
